---------------------------- MODULE Spec2Model ----------------------------
(***************************************************************************)
(* gh-find-code-mcp: the search_repos tool of src/gh_find_code_mcp/main.py *)
(* and its --set-gh setup entry point.                                     *)
(*                                                                         *)
(* Text is modelled by TLA+ strings, on which Len, \o, Head, Tail and      *)
(* SubSeq act character by character.  A JSON document that json.loads     *)
(* accepts is modelled by its parsed value (kind "json"); any other text   *)
(* by the string itself (kind "text").                                     *)
(***************************************************************************)
EXTENDS Integers, Sequences, FiniteSets, TLC

VARIABLES
    fs,       \* the file system: file -> "missing" | "file" | "exec"
    cfgFile,  \* the content of CONFIG_FILE
    setup,    \* the last run of main() with --set-gh: its argument and exit code
    pc,       \* where the current search_repos call stands
    req,      \* the parameters of the current call
    args,     \* the argument list the call built
    gh,       \* what _find_gh returned to the call
    spawns,   \* the calls of subprocess.run the call has made
    proc,     \* what the external process did
    ret       \* how the call ended: a returned string, or a raised exception

vars == <<fs, cfgFile, setup, pc, req, args, gh, spawns, proc, ret>>

---------------------------------------------------------------------------
(* Python values *)

\* Python's None, where a path or a string is expected.
None == "<None>"

\* Python truthiness of an optional string (None and "" are false).
Truthy(x) == x # None /\ x # ""

Min(a, b) == IF a < b THEN a ELSE b
Max(a, b) == IF a > b THEN a ELSE b

\* The characters str.strip() removes (those the model's texts use).
Whitespace == {" ", "\t", "\n", "\r"}

CharAt(s, i) == SubSeq(s, i, i)

RECURSIVE LStrip(_)
LStrip(s) ==
    IF Len(s) = 0 THEN s
    ELSE IF CharAt(s, 1) \in Whitespace THEN LStrip(SubSeq(s, 2, Len(s)))
    ELSE s

RECURSIVE RStrip(_)
RStrip(s) ==
    IF Len(s) = 0 THEN s
    ELSE IF CharAt(s, Len(s)) \in Whitespace THEN RStrip(SubSeq(s, 1, Len(s) - 1))
    ELSE s

\* str.strip()
Strip(s) == RStrip(LStrip(s))

\* str.startswith(p)
StartsWith(s, p) == Len(s) >= Len(p) /\ SubSeq(s, 1, Len(p)) = p

\* The index of the first occurrence of the character c in s, 0 when there is none.
RECURSIVE IndexFrom(_, _, _)
IndexFrom(s, c, i) ==
    IF i > Len(s) THEN 0
    ELSE IF CharAt(s, i) = c THEN i
    ELSE IndexFrom(s, c, i + 1)

\* str.split(c): the segments between the occurrences of c, empty ones kept.
RECURSIVE Split(_, _)
Split(s, c) ==
    LET i == IndexFrom(s, c, 1) IN
    IF i = 0 THEN <<s>>
    ELSE <<SubSeq(s, 1, i - 1)>> \o Split(SubSeq(s, i + 1, Len(s)), c)

\* A string returned as it is, and the text json.dumps(v, indent=2) of a value.
Text(s) == [kind |-> "text", text |-> s]
JsonText(v) == [kind |-> "json", doc |-> v]

---------------------------------------------------------------------------
(* The file system and the configuration file *)

Home == "/home/u"
Cwd == "/home/u"

\* The file the executable search path offers for "gh", and a file outside it.
PathGh == "/usr/bin/gh"
HomeGh == "/home/u/gh"
Files == {PathGh, HomeGh}

\* os.path.expanduser
ExpandUser(p) ==
    IF p = "~" \/ StartsWith(p, "~/") THEN Home \o SubSeq(p, 2, Len(p)) ELSE p

\* os.path.abspath (of a path without "." or ".." parts)
AbsPath(p) == IF StartsWith(p, "/") THEN p ELSE Cwd \o "/" \o p

\* What a path names in the file system f.
Stat(f, p) == IF AbsPath(p) \in Files THEN f[AbsPath(p)] ELSE "missing"

\* os.path.isfile(p) and os.access(p, os.X_OK)
IsFile(f, p) == Stat(f, p) \in {"file", "exec"}
IsExecutable(f, p) == Stat(f, p) = "exec"

\* shutil.which("gh"): the file on the search path when it is an executable file.
Which(f) == IF IsFile(f, PathGh) /\ IsExecutable(f, PathGh) THEN PathGh ELSE None

Absent == [kind |-> "absent", gh_path |-> None]
Corrupt == [kind |-> "corrupt", gh_path |-> None]
Dict(p) == [kind |-> "dict", gh_path |-> p]

\* _load_config: the stored object, {} when the file is missing or unreadable.
LoadConfig(c) == IF c.kind = "dict" THEN c ELSE Dict(None)

\* _save_config
SaveConfig(config) == config

\* _find_gh taking the configured path on trust: the fault C3 has to catch.
FindGhUnchecked(f, c) ==
    IF Truthy(Which(f)) THEN Which(f)
    ELSE LET gh_path == LoadConfig(c).gh_path IN
         IF Truthy(gh_path) THEN gh_path ELSE None

\* _find_gh: the search path first, then the configured path if it is an
\* executable file now.
FindGh(f, c) ==
    IF Truthy(Which(f)) THEN Which(f)
    ELSE LET gh_path == LoadConfig(c).gh_path IN
         IF Truthy(gh_path) /\ IsFile(f, gh_path) /\ IsExecutable(f, gh_path)
         THEN gh_path
         ELSE None

---------------------------------------------------------------------------
(* search_repos: the argument list *)

MinLimit == 1
MaxLimit == 30

\* The clamp without its upper end: the fault C6 has to catch.
ClampLimitBelow(limit) == Max(limit, MinLimit)

\* limit = min(max(limit, 1), 30)
ClampLimit(limit) == Min(Max(limit, MinLimit), MaxLimit)

JsonFields == "fullName,description,stargazersCount,language,url"

\* The topic loop without strip(): the fault C8 has to catch.
RECURSIVE TopicArgsUntrimmed(_)
TopicArgsUntrimmed(segments) ==
    IF segments = <<>> THEN <<>>
    ELSE <<"--topic", Head(segments)>> \o TopicArgsUntrimmed(Tail(segments))

\* for t in topic.split(","): args.extend(["--topic", t.strip()])
RECURSIVE TopicArgs(_)
TopicArgs(segments) ==
    IF segments = <<>> THEN <<>>
    ELSE <<"--topic", Strip(Head(segments))>> \o TopicArgs(Tail(segments))

\* The argument list with "--sort" for every sort: the fault C7 has to catch.
BuildArgsAlwaysSort(r) ==
    <<"search", "repos", r.query, "--json", JsonFields,
      "--limit", ToString(ClampLimit(r.limit))>>
    \o <<"--sort", r.sort>>
    \o (IF r.language # "" THEN <<"--language", r.language>> ELSE <<>>)
    \o (IF r.topic # "" THEN TopicArgs(Split(r.topic, ",")) ELSE <<>>)
    \o (IF r.owner # "" THEN <<"--owner", r.owner>> ELSE <<>>)

\* The argument list search_repos hands to _run_gh.
BuildArgs(r) ==
    <<"search", "repos", r.query, "--json", JsonFields,
      "--limit", ToString(ClampLimit(r.limit))>>
    \o (IF r.sort # "best-match" THEN <<"--sort", r.sort>> ELSE <<>>)
    \o (IF r.language # "" THEN <<"--language", r.language>> ELSE <<>>)
    \o (IF r.topic # "" THEN TopicArgs(Split(r.topic, ",")) ELSE <<>>)
    \o (IF r.owner # "" THEN <<"--owner", r.owner>> ELSE <<>>)

---------------------------------------------------------------------------
(* search_repos: the result *)

NotFoundMsg == "Error: gh CLI not found. Run: gh-find-code-mcp --set-gh /path/to/gh"
NoReposMsg == "No repositories found. Try broader or different search terms."

MaxDescription == 1000
KeptDescription == 997

\* JSON values: a string, a number, null.
JStr(s) == [t |-> "str", s |-> s]
JNum(n) == [t |-> "num", n |-> n]
JNull == [t |-> "null"]

\* Python truthiness of a JSON value (None, "" and 0 are false).
JTruthy(v) ==
    CASE v.t = "null" -> FALSE
      [] v.t = "str" -> v.s # ""
      [] v.t = "num" -> v.n # 0

\* dict.get(key, default), on a JSON object given as a record of its keys.
Get(obj, key, default) == IF key \in DOMAIN obj THEN obj[key] ELSE default

\* The cut keeping 1000 characters before the "...": the fault C9 has to catch.
DescriptionCutLate(r) ==
    LET d == Get(r, "description", JNull)
        desc == IF JTruthy(d) THEN d.s ELSE "" IN
    IF Len(desc) > MaxDescription
    THEN JStr(SubSeq(desc, 1, MaxDescription) \o "...")
    ELSE JStr(desc)

\* desc = r.get("description") or ""; cut to 997 characters and "..." past 1000.
Description(r) ==
    LET d == Get(r, "description", JNull)
        desc == IF JTruthy(d) THEN d.s ELSE "" IN
    IF Len(desc) > MaxDescription
    THEN JStr(SubSeq(desc, 1, KeptDescription) \o "...")
    ELSE JStr(desc)

\* The record with r.get("language", "?"), which keeps an empty or null
\* language: the fault C10 has to catch.
SummaryLanguageKept(r) ==
    [name |-> r["fullName"],
     stars |-> Get(r, "stargazersCount", JNum(0)),
     language |-> Get(r, "language", JStr("?")),
     description |-> Description(r),
     url |-> r["url"]]

\* The record search_repos keeps of one element of the external tool's array.
Summary(r) ==
    [name |-> r["fullName"],
     stars |-> Get(r, "stargazersCount", JNum(0)),
     language |-> LET l == Get(r, "language", JNull) IN
                  IF JTruthy(l) THEN l ELSE JStr("?"),
     description |-> Description(r),
     url |-> r["url"]]

\* results: one record per element, in order.
Summaries(repos) == [i \in 1..Len(repos) |-> Summary(repos[i])]

\* json.loads(raw): the parsed value, or the JSONDecodeError.
JsonLoads(raw) ==
    IF raw.kind = "json" THEN [ok |-> TRUE, value |-> raw.doc]
    ELSE [ok |-> FALSE, value |-> <<>>]

\* Lines 111-135: what search_repos returns for the string raw of _run_gh.
Respond(raw) ==
    IF raw.kind = "text" /\ StartsWith(raw.text, "Error:") THEN raw
    ELSE LET repos == JsonLoads(raw) IN
         IF ~repos.ok THEN raw
         ELSE IF Len(repos.value) = 0 THEN Text(NoReposMsg)
         ELSE LET results == Summaries(repos.value) IN
              JsonText([count |-> Len(results), repos |-> results])

---------------------------------------------------------------------------
(* _run_gh: the external process *)

TimeoutSecs == 30

\* How a call ends.
Returned(v) == [outcome |-> "returned", value |-> v]
Raised(e) == [outcome |-> "raised", exc |-> e]
NoRet == [outcome |-> "none"]

\* What an external process does: whether it could be started, how long it ran,
\* whether its output decoded as text, its exit code and its two streams.
Process(l, e, d, rc, out, err) ==
    [launched |-> l, elapsed |-> e, decoded |-> d,
     returncode |-> rc, stdout |-> out, stderr |-> err]
NoProcess == Process(FALSE, 0, TRUE, 0, Text(""), "")
LaunchFailure == Process(FALSE, 0, TRUE, 0, Text(""), "")
Timeout == Process(TRUE, TimeoutSecs + 1, TRUE, 0, Text(""), "")
CaptureFailure == Process(TRUE, 1, FALSE, 0, Text(""), "")
Exit(rc, out, err) == Process(TRUE, 1, TRUE, rc, out, err)

\* result.stdout.strip(): white space around a JSON document is no part of it.
StripOutput(out) == IF out.kind = "text" THEN Text(Strip(out.text)) ELSE out

\* _run_gh without strip() on stderr: the fault C2 has to catch.
RunGhResultUntrimmed(p) ==
    IF ~p.launched THEN Raised("OSError")
    ELSE IF p.elapsed > TimeoutSecs THEN Raised("TimeoutExpired")
    ELSE IF ~p.decoded THEN Raised("UnicodeDecodeError")
    ELSE IF p.returncode # 0 THEN Returned(Text("Error: " \o p.stderr))
    ELSE Returned(StripOutput(p.stdout))

\* Lines 60-68: subprocess.run raises when the process cannot be started, runs
\* past the timeout or writes what does not decode; _run_gh catches none of it.
RunGhResult(p) ==
    IF ~p.launched THEN Raised("OSError")
    ELSE IF p.elapsed > TimeoutSecs THEN Raised("TimeoutExpired")
    ELSE IF ~p.decoded THEN Raised("UnicodeDecodeError")
    ELSE IF p.returncode # 0 THEN Returned(Text("Error: " \o Strip(p.stderr)))
    ELSE Returned(StripOutput(p.stdout))

\* Lines 110-135 once _run_gh has ended: an exception passes through search_repos.
SearchResult(r) ==
    IF r.outcome = "raised" THEN r ELSE Returned(Respond(r.value))

---------------------------------------------------------------------------
(* Inputs *)

\* How far past [1, 30] the limits tried reach, and how long an array may be.
LimitMargin == 2
MaxRepos == 2

DefaultLimit == 20

Request(q, l, t, o, s, n) ==
    [query |-> q, language |-> l, topic |-> t, owner |-> o, sort |-> s, limit |-> n]
NoRequest == Request("", "", "", "", "", 0)

Sorts == {"stars", "best-match", "forks", "updated", "help-wanted-issues"}
Topics == {"", "cli", "cli, mcp-server", " cli ,mcp-server\t", "a,,b", ",", " "}
Limits == ((MinLimit - LimitMargin)..(MaxLimit + LimitMargin)) \cup {-5, 500}

AllRequests ==
    {Request("vim plugin", l, t, o, s, n) :
        l \in {"", "python"}, t \in Topics, o \in {"", "anthropics"},
        s \in Sorts, n \in Limits}

SomeRequests ==
    {Request("vim plugin", "", "", "", "stars", DefaultLimit),
     Request("mcp", "python", "cli, mcp-server", "anthropics", "best-match", 500)}

\* A string of n characters, the i-th of which tells i modulo 10.
RECURSIVE Cycle(_)
Cycle(k) ==
    IF k = 0 THEN ""
    ELSE IF k % 2 = 0 THEN LET h == Cycle(k \div 2) IN h \o h
    ELSE Cycle(k - 1) \o "abcdefghij"
Filler(n) == SubSeq(Cycle(n \div 10 + 1), 1, n)

\* A JSON object: the keys it has, with their values.
Object(keys, values) == [k \in keys |-> values[k]]

RequiredKeys == {"fullName", "url"}
OptionalKeys == {"description", "stargazersCount", "language"}

DescriptionLengths ==
    {0, 1, 900, KeptDescription, MaxDescription - 1, MaxDescription,
     MaxDescription + 1, 1500}

\* The elements gh search repos --json can print: fullName and url always,
\* the other keys present or not, description and language possibly null.
Elements ==
    {Object(RequiredKeys \cup K,
            [fullName |-> JStr("cli/cli"), url |-> JStr("https://github.com/cli/cli"),
             description |-> d, stargazersCount |-> n, language |-> l]) :
        K \in SUBSET OptionalKeys,
        d \in {JNull} \cup {JStr(Filler(k)) : k \in DescriptionLengths},
        n \in {JNum(0), JNum(36000)},
        l \in {JNull, JStr(""), JStr("Go")}}

SomeElements ==
    {[fullName |-> JStr("cli/cli"), url |-> JStr("https://github.com/cli/cli"),
      description |-> JStr("GitHub on the command line"),
      stargazersCount |-> JNum(36000), language |-> JStr("Go")],
     [fullName |-> JStr("a/b"), url |-> JStr("https://github.com/a/b"),
      description |-> JNull],
     [fullName |-> JStr("c/d"), url |-> JStr("https://github.com/c/d"),
      description |-> JStr(Filler(1500)), language |-> JStr("")]}

\* The sequences of at most n members of S.
SeqsUpTo(S, n) == UNION {[1..k -> S] : k \in 0..n}

\* The arrays the external tool prints.
Arrays == SeqsUpTo(SomeElements, MaxRepos) \cup {<<e>> : e \in Elements}

Stderrs ==
    {"", "rate limit exceeded", "  rate limit exceeded\n", "\n \t",
     "HTTP 422\nbad query\r\n"}
TextOutputs ==
    {"", "Error: not logged in", "  gh: update available\n", "\n Error: late \n"}

\* What the external process may do, with every array as its output.
AllProcesses ==
    {LaunchFailure, Timeout, CaptureFailure}
    \cup {Exit(rc, out, err) :
            rc \in {1, 4, -9}, out \in {Text(""), JsonText(<<>>)}, err \in Stderrs}
    \cup {Exit(0, Text(t), err) : t \in TextOutputs, err \in {"", "warning\n"}}
    \cup {Exit(0, JsonText(a), "") : a \in Arrays}

\* The same, with a few arrays only.
SomeProcesses ==
    {p \in AllProcesses :
        p.stdout.kind = "json" => p.stdout.doc \in SeqsUpTo(SomeElements, 1)}

SetupArgs == {"~/gh", "gh", "/usr/bin/gh", "/usr/bin/hg"}

---------------------------------------------------------------------------
(* The operations *)

TypeOK ==
    /\ fs \in [Files -> {"missing", "file", "exec"}]
    /\ cfgFile \in {Absent, Corrupt} \cup {Dict(f) : f \in Files}
    /\ pc \in {"idle", "spawn", "done"}
    /\ spawns \in 0..1

\* The server waits for a call.
Idle ==
    /\ pc = "idle"
    /\ req = NoRequest
    /\ args = <<>>
    /\ gh = None
    /\ spawns = 0
    /\ proc = NoProcess
    /\ ret = NoRet

NoSetup == [arg |-> "", exit |-> 0]

Init ==
    /\ fs \in [Files -> {"missing", "file", "exec"}]
    /\ cfgFile \in {Absent, Corrupt}
    /\ setup = NoSetup
    /\ Idle

\* search_repos up to the call of subprocess.run (lines 94-110 and 57-59):
\* the arguments are built, the binary is looked up, and without one the call
\* returns the instruction.
SearchRepos(r) ==
    /\ pc = "idle"
    /\ req' = r
    /\ args' = BuildArgs(r)
    /\ gh' = FindGh(fs, cfgFile)
    /\ spawns' = 0
    /\ proc' = NoProcess
    /\ IF gh' = None
       THEN /\ pc' = "done"
            /\ ret' = SearchResult(Returned(Text(NotFoundMsg)))
       ELSE /\ pc' = "spawn"
            /\ ret' = NoRet
    /\ UNCHANGED <<fs, cfgFile, setup>>

\* _run_gh starting the process once more after an exception: the fault C4
\* has to catch.
RunGhRetrying(p) ==
    /\ pc = "spawn"
    /\ ~IsExecutable(fs, gh) => ~p.launched
    /\ spawns' = spawns + 1
    /\ proc' = p
    /\ IF RunGhResult(p).outcome = "raised" /\ spawns = 0
       THEN pc' = "spawn" /\ ret' = NoRet
       ELSE pc' = "done" /\ ret' = SearchResult(RunGhResult(p))
    /\ UNCHANGED <<fs, cfgFile, setup, req, args, gh>>

\* subprocess.run and what follows it (lines 60-68 and 111-135): one process is
\* started, which fails to start when the file is no longer executable, and the
\* call ends with what search_repos makes of it.
RunGh(p) ==
    /\ pc = "spawn"
    /\ ~IsExecutable(fs, gh) => ~p.launched
    /\ spawns' = spawns + 1
    /\ proc' = p
    /\ ret' = SearchResult(RunGhResult(p))
    /\ pc' = "done"
    /\ UNCHANGED <<fs, cfgFile, setup, req, args, gh>>

\* The call is over and the server takes the next one.
Reply ==
    /\ pc = "done"
    /\ pc' = "idle"
    /\ req' = NoRequest
    /\ args' = <<>>
    /\ gh' = None
    /\ spawns' = 0
    /\ proc' = NoProcess
    /\ ret' = NoRet
    /\ UNCHANGED <<fs, cfgFile, setup>>

\* The check of line 145 without the executable bit: the fault C5 has to catch.
SetupTargetExists(f, path) == IsFile(f, path)

\* Line 145: the target is an existing file with the executable bit.
SetupTargetOk(f, path) == IsFile(f, path) /\ IsExecutable(f, path)

\* main() with --set-gh a (lines 143-152), run beside the server.
SetGh(a) ==
    LET path == ExpandUser(a) IN
    /\ IF ~SetupTargetOk(fs, path)
       THEN /\ setup' = [arg |-> a, exit |-> 1]
            /\ UNCHANGED cfgFile
       ELSE /\ cfgFile' = SaveConfig([LoadConfig(cfgFile) EXCEPT !.gh_path = AbsPath(path)])
            /\ setup' = [arg |-> a, exit |-> 0]
    /\ UNCHANGED <<fs, pc, req, args, gh, spawns, proc, ret>>

\* The world outside: files are created, removed, and change their mode.
Create(f) ==
    /\ fs[f] = "missing"
    /\ fs' = [fs EXCEPT ![f] = "file"]
    /\ UNCHANGED <<cfgFile, setup, pc, req, args, gh, spawns, proc, ret>>

Remove(f) ==
    /\ fs[f] # "missing"
    /\ fs' = [fs EXCEPT ![f] = "missing"]
    /\ UNCHANGED <<cfgFile, setup, pc, req, args, gh, spawns, proc, ret>>

Chmod(f) ==
    /\ fs[f] # "missing"
    /\ fs' = [fs EXCEPT ![f] = IF fs[f] = "file" THEN "exec" ELSE "file"]
    /\ UNCHANGED <<cfgFile, setup, pc, req, args, gh, spawns, proc, ret>>

Next ==
    \/ \E r \in SomeRequests : SearchRepos(r)
    \/ \E p \in SomeProcesses : RunGh(p)
    \/ Reply
    \/ \E a \in SetupArgs : SetGh(a)
    \/ \E f \in Files : Create(f)
    \/ \E f \in Files : Remove(f)
    \/ \E f \in Files : Chmod(f)

Spec == Init /\ [][Next]_vars

\* The calls of a server on a machine without gh, over every request: each
\* builds its arguments, finds no binary and returns.
InitArgs ==
    /\ fs = [f \in Files |-> "missing"]
    /\ cfgFile = Absent
    /\ setup = NoSetup
    /\ Idle

NextArgs ==
    \/ \E r \in AllRequests : SearchRepos(r)
    \/ Reply

SpecArgs == InitArgs /\ [][NextArgs]_vars

\* The calls of a server on a machine with gh on the search path, over every
\* behaviour of the external process.
InitRun ==
    /\ fs = [f \in Files |-> IF f = PathGh THEN "exec" ELSE "missing"]
    /\ cfgFile = Absent
    /\ setup = NoSetup
    /\ Idle

NextRun ==
    \/ \E r \in SomeRequests : SearchRepos(r)
    \/ \E p \in AllProcesses : RunGh(p)
    \/ Reply

SpecRun == InitRun /\ [][NextRun]_vars

---------------------------------------------------------------------------
(* Vocabulary of the properties *)

\* The external process ran to its end in time and its output was captured.
Completed(p) == p.launched /\ p.elapsed <= TimeoutSecs /\ p.decoded

\* The call is over with a process behind it that ran to its end.
DoneAfter(p) == pc = "done" /\ spawns > 0 /\ Completed(p)

\* The places of the term x in the argument list a.
Places(a, x) == {i \in 1..Len(a) : a[i] = x}

\* Every character of s is white space.
Blank(s) == \A i \in 1..Len(s) : CharAt(s, i) \in Whitespace

\* t is s without its leading and trailing white space.
IsTrimOf(t, s) ==
    /\ \E i \in 0..Len(s) : \E j \in i..Len(s) :
          /\ t = SubSeq(s, i + 1, j)
          /\ Blank(SubSeq(s, 1, i))
          /\ Blank(SubSeq(s, j + 1, Len(s)))
    /\ t # "" => CharAt(t, 1) \notin Whitespace /\ CharAt(t, Len(t)) \notin Whitespace

\* The places of the commas of s, and the k-th of them in order (0 before the
\* first, Len(s) + 1 after the last).
Commas(s) == {i \in 1..Len(s) : CharAt(s, i) = ","}
Comma(s, k) ==
    IF k = 0 THEN 0
    ELSE IF k > Cardinality(Commas(s)) THEN Len(s) + 1
    ELSE CHOOSE i \in Commas(s) : Cardinality({j \in Commas(s) : j < i}) = k - 1

\* The k-th comma-separated segment of s.
Segment(s, k) == SubSeq(s, Comma(s, k - 1) + 1, Comma(s, k) - 1)

\* The values that follow the "--topic" terms of the argument list a, in order.
TopicPlaces(a) == Places(a, "--topic")
TopicValue(a, k) ==
    a[(CHOOSE i \in TopicPlaces(a) :
          Cardinality({j \in TopicPlaces(a) : j < i}) = k - 1) + 1]

---------------------------------------------------------------------------
(* The properties *)

\* C1: every call to search_repos ends by returning a string, whatever the
\* external process did (it could not be started, its output could not be
\* captured, it ran past 30 seconds, it failed, it printed anything): no
\* exception leaves the call.
C1_AlwaysReturnsString ==
    pc = "done" => ret.outcome = "returned" /\ ret.value.kind \in {"text", "json"}

\* C2: when the external process exits with a non-zero code, search_repos
\* returns "Error: " followed by the process's stderr without its leading and
\* trailing white space, whatever stdout holds (exit code 1 with stderr
\* "rate limit exceeded" gives "Error: rate limit exceeded").
C2_NonZeroExit ==
    DoneAfter(proc) /\ proc.returncode # 0 =>
        /\ ret.outcome = "returned"
        /\ ret.value.kind = "text"
        /\ StartsWith(ret.value.text, "Error: ")
        /\ IsTrimOf(SubSeq(ret.value.text, 8, Len(ret.value.text)), proc.stderr)
        /\ (proc.returncode = 1 /\ proc.stderr = "rate limit exceeded"
              => ret.value.text = "Error: rate limit exceeded")

\* C2 happens: exit code 1 with padded stderr and a JSON document on stdout.
C2_Witness ==
    /\ DoneAfter(proc)
    /\ proc.returncode = 1
    /\ proc.stderr = "  rate limit exceeded\n"
    /\ proc.stdout.kind = "json"
    /\ ret = Returned(Text("Error: rate limit exceeded"))

\* C3: a call takes the binary from the executable search path when it is
\* there; otherwise from the persisted configuration, if that path is an
\* existing executable file when the call is made; otherwise it starts no
\* process and returns the fixed instruction, which begins "Error:".
C3_Resolution ==
    [][pc = "idle" /\ pc' # "idle" =>
        LET onPath == fs[PathGh] = "exec"
            configured == cfgFile.kind = "dict" /\ fs[cfgFile.gh_path] = "exec" IN
        /\ onPath => pc' = "spawn" /\ gh' = PathGh
        /\ ~onPath /\ configured => pc' = "spawn" /\ gh' = cfgFile.gh_path
        /\ ~onPath /\ ~configured =>
              /\ pc' = "done"
              /\ spawns' = 0
              /\ ret' = Returned(Text(NotFoundMsg))
              /\ StartsWith(ret'.value.text, "Error:")]_vars

\* C3 happens: a path is persisted, but neither it nor the search path gave
\* an executable file when the call was made.
C3_Witness ==
    /\ pc = "done"
    /\ gh = None
    /\ cfgFile.kind = "dict"
    /\ ret = Returned(Text(NotFoundMsg))

\* C4 as claimed: every call to search_repos starts exactly one external
\* process, never none and never more than one.
C4_ExactlyOneSpawn == pc = "done" => spawns = 1

\* C4 as amended: a call starts an external process at most once, and not
\* again after a failure: once when the binary was found, never when it was not.
C4_AtMostOneSpawn ==
    /\ spawns <= 1
    /\ pc = "spawn" => spawns = 0
    /\ pc = "done" => spawns = (IF gh = None THEN 0 ELSE 1)

\* C4 happens: the one process of a call ran past the timeout, and the call is
\* over without another.
C4_Witness ==
    /\ pc = "done"
    /\ spawns = 1
    /\ proc.launched /\ proc.elapsed > TimeoutSecs

\* The file a setup argument names.
SetupTarget(a) ==
    CASE a = "~/gh" -> HomeGh
      [] a = "gh" -> HomeGh
      [] a = "/usr/bin/gh" -> PathGh
      [] OTHER -> None

\* C5: the configuration changes only in a setup run whose target is an
\* existing executable file at that moment, and then holds that file's
\* absolute path; a setup run whose target is missing or not executable leaves
\* the configuration as it was and exits with failure; search_repos never
\* writes it.
C5_ConfigWrites ==
    [][/\ cfgFile' # cfgFile =>
            /\ setup'.exit = 0
            /\ SetupTarget(setup'.arg) \in Files
            /\ fs[SetupTarget(setup'.arg)] = "exec"
            /\ cfgFile' = Dict(SetupTarget(setup'.arg))
       /\ \A a \in SetupArgs :
            SetGh(a) /\ (SetupTarget(a) \in Files => fs[SetupTarget(a)] # "exec") =>
                cfgFile' = cfgFile /\ setup' = [arg |-> a, exit |-> 1]
       /\ pc' # pc => cfgFile' = cfgFile]_vars

\* C5 happens: a path was persisted, its file then lost the executable bit,
\* and a later setup run on it failed and left the configuration alone.
C5_Witness ==
    /\ cfgFile = Dict(HomeGh)
    /\ setup = [arg |-> "~/gh", exit |-> 1]
    /\ fs[HomeGh] = "file"

\* C6: the argument after "--limit" is the limit brought into [1, 30]: 1 for a
\* limit below 1, 30 for one above 30, the limit itself otherwise; the call
\* goes on with it whatever the limit, and ends as any call without a binary.
C6_LimitClamped ==
    pc # "idle" =>
        /\ Places(args, "--limit") = {6}
        /\ args[7] = (IF req.limit < 1 THEN "1"
                      ELSE IF req.limit > 30 THEN "30"
                      ELSE ToString(req.limit))
        /\ pc = "done" /\ gh = None => ret = Returned(Text(NotFoundMsg))

\* C6 happens: a limit of 500 went on as 30.
C6_Witness == pc # "idle" /\ req.limit = 500 /\ args[7] = "30"

\* C7: with sort "best-match" the argument list has no "--sort" term; with any
\* other sort it has exactly one, and the sort value follows it.
C7_SortTerm ==
    pc # "idle" =>
        IF req.sort = "best-match"
        THEN Places(args, "--sort") = {}
        ELSE /\ Cardinality(Places(args, "--sort")) = 1
             /\ \A i \in Places(args, "--sort") : i < Len(args) /\ args[i + 1] = req.sort

\* C7 happens: a call with sort "best-match" built its arguments.
C7_Witness ==
    /\ pc # "idle"
    /\ req.sort = "best-match"
    /\ req.topic # ""
    /\ Places(args, "--sort") = {}

\* C8: a non-empty topic gives one "--topic" term per comma-separated segment,
\* in order, each followed by the segment without its surrounding white space,
\* an empty segment by the empty string; an empty topic gives none.
C8_TopicTerms ==
    pc # "idle" =>
        IF req.topic = ""
        THEN TopicPlaces(args) = {}
        ELSE /\ Cardinality(TopicPlaces(args)) = Cardinality(Commas(req.topic)) + 1
             /\ \A k \in 1..Cardinality(TopicPlaces(args)) :
                   IsTrimOf(TopicValue(args, k), Segment(req.topic, k))
             /\ (req.topic = "cli, mcp-server" =>
                   /\ TopicValue(args, 1) = "cli"
                   /\ TopicValue(args, 2) = "mcp-server")

\* C8 happens: the topic "a,,b" gave three terms, the second with an empty value.
C8_Witness ==
    /\ pc # "idle"
    /\ req.topic = "a,,b"
    /\ Cardinality(TopicPlaces(args)) = 3
    /\ TopicValue(args, 2) = ""

\* The call returned the JSON document made of the array the process printed.
Shaped ==
    /\ DoneAfter(proc)
    /\ proc.returncode = 0
    /\ proc.stdout.kind = "json"
    /\ Len(proc.stdout.doc) > 0

\* C9: a description of more than 1000 characters is returned as 1000
\* characters, its first 997 followed by "..."; one of 1000 or fewer is
\* returned unchanged.
C9_DescriptionCut ==
    Shaped =>
        /\ ret.outcome = "returned" /\ ret.value.kind = "json"
        /\ Len(ret.value.doc.repos) = Len(proc.stdout.doc)
        /\ \A i \in 1..Len(proc.stdout.doc) :
              LET r == proc.stdout.doc[i]
                  out == ret.value.doc.repos[i].description IN
              "description" \in DOMAIN r /\ r["description"].t = "str" =>
                  LET d == r["description"].s IN
                  /\ out.t = "str"
                  /\ Len(d) <= 1000 => out.s = d
                  /\ Len(d) > 1000 =>
                        /\ Len(out.s) = 1000
                        /\ SubSeq(out.s, 1, 997) = SubSeq(d, 1, 997)
                        /\ SubSeq(out.s, 998, 1000) = "..."

\* C9 happens: a description of 1001 characters came back as 1000.
C9_Witness ==
    /\ Shaped
    /\ "description" \in DOMAIN proc.stdout.doc[1]
    /\ proc.stdout.doc[1]["description"].t = "str"
    /\ Len(proc.stdout.doc[1]["description"].s) = 1001
    /\ Len(ret.value.doc.repos[1].description.s) = 1000

\* C10: a non-empty array gives a JSON object whose repos list has one record
\* per element in the same order and whose count is the length of that list;
\* a record's name and url are the element's fullName and url, its stars 0
\* when stargazersCount is absent, its language "?" when language is absent or
\* empty, its description "" when description is absent or null.
C10_Records ==
    Shaped =>
        /\ ret.outcome = "returned" /\ ret.value.kind = "json"
        /\ Len(ret.value.doc.repos) = Len(proc.stdout.doc)
        /\ ret.value.doc.count = Len(ret.value.doc.repos)
        /\ \A i \in 1..Len(proc.stdout.doc) :
              LET r == proc.stdout.doc[i]
                  out == ret.value.doc.repos[i] IN
              /\ out.name = r["fullName"]
              /\ out.url = r["url"]
              /\ "stargazersCount" \notin DOMAIN r => out.stars = JNum(0)
              /\ "stargazersCount" \in DOMAIN r => out.stars = r["stargazersCount"]
              /\ "language" \notin DOMAIN r => out.language = JStr("?")
              /\ "language" \in DOMAIN r =>
                    out.language = (IF r["language"] \in {JNull, JStr("")}
                                    THEN JStr("?") ELSE r["language"])
              /\ "description" \notin DOMAIN r => out.description = JStr("")
              /\ "description" \in DOMAIN r /\ r["description"] = JNull =>
                    out.description = JStr("")

\* C10 happens: two elements, the second without the language key and with a
\* null description, came back as two records in that order.
C10_Witness ==
    /\ Shaped
    /\ Len(proc.stdout.doc) = 2
    /\ proc.stdout.doc[1]["fullName"] # proc.stdout.doc[2]["fullName"]
    /\ "language" \notin DOMAIN proc.stdout.doc[2]
    /\ proc.stdout.doc[2]["description"] = JNull
    /\ ret.value.doc.count = 2
    /\ ret.value.doc.repos[2].language = JStr("?")
    /\ ret.value.doc.repos[2].description = JStr("")

===========================================================================
